---- MODULE Spec2Model ----
(***************************************************************************)
(* FitScore dashboard (FitScoreDashboard component) and the API clients it *)
(* calls.  The component's state is the set of useState cells; every load  *)
(* started by the [resumeId] effect is an async task whose continuations   *)
(* run to completion between awaits (one action per continuation).  The    *)
(* backend is the environment: it settles each HTTP request with a         *)
(* response chosen from a small set, in any order.                         *)
(***************************************************************************)
EXTENDS Integers, Sequences, FiniteSets, TLC

\* ------------------------------------------------------------ bounds
\* Longest job list the backend returns in the single-load specification.
MaxJobs == 7
\* Longest job list the backend returns when resumeId may change.
MaxJobsShort == 1
\* Number of loads (effect runs) of one component instance.
MaxLoads == 2
\* Number of job descriptions given to uploadJobs.
MaxDescriptions == 2
\* Apply and Save clicks on one page
MaxClicks == 1
\* how far below 0 and above 100 a score may lie
MaxOver == 3
\* recommendations of one match result
MaxRecs == 3
\* match results counted into one histogram
MaxScored == 3

\* --------------------------------------------------- program constants
\* jobs.slice(0, 6): the display cap.
DisplayCap == 6

Resumes == {"r1", "r2"}

VARIABLES
  resumeId,       \* the resumeId prop of the latest render
  effectPending,  \* the [resumeId] effect of the latest render has not run yet
  dashboardData,  \* useState cells of FitScoreDashboard
  bulkAnalysis,
  recentJobs,
  jobMatches,
  loading,
  error,
  activeTab,
  loads,          \* the loadDashboardData tasks started so far, oldest first
  sent,           \* the API requests the component has issued, in issue order
  console,        \* the lines the component has written to the console
  api,            \* an API client function called on its own, and its fetches
  view            \* a presentational component: its props and what it renders

cells == <<dashboardData, bulkAnalysis, recentJobs, jobMatches, loading, error>>
dashVars == <<resumeId, effectPending, dashboardData, bulkAnalysis, recentJobs,
              jobMatches, loading, error, activeTab, loads, sent, console>>
vars == <<resumeId, effectPending, dashboardData, bulkAnalysis, recentJobs,
          jobMatches, loading, error, activeTab, loads, sent, console, api, view>>

\* ------------------------------------------------------------ values
Min(a, b) == IF a <= b THEN a ELSE b

\* null and undefined.
NULL == [kind |-> "null"]
UNDEFINED == [kind |-> "undefined"]

\* null, for the string-valued error cell.
NoError == "null"

\* { [jobId: string]: ResumeJobMatchResult } with no key.
EmptyMap == [j \in {} |-> NULL]

\* The i-th job the backend holds for resume r.
Job(r, i) == [job_id |-> <<r, i>>]

\* A JSON array, and a JSON value that is neither an array nor falsy.
ArrayOf(items) == [kind |-> "array", items |-> items]
NotAnArray == [kind |-> "object", items |-> <<>>]
IsArray(v) == v.kind = "array"

\* JavaScript truthiness of a JSON value of the model.
Truthy(v) == v # NULL /\ v # UNDEFINED

\* The backend's job list of length n for resume r.
JobList(r, n) == ArrayOf([i \in 1..n |-> Job(r, i)])

\* The dashboard payload, bulk analysis and match result the backend computes;
\* each value carries the identifiers it was computed for.
DashboardOf(r) == [kind |-> "DashboardData", resume_id |-> r]
BulkOf(r) == [kind |-> "BulkAnalysisResult", resume_id |-> r]
MatchOf(req) == [kind |-> "ResumeJobMatchResult", resume_id |-> req.resume_id,
                 job_id |-> req.job_id]

\* Promise states.  Consumed: settled, and its value already read by the one
\* continuation that awaited it.
Pending == [settled |-> "pending"]
Fulfilled(v) == [settled |-> "fulfilled", value |-> v]
Rejected(e) == [settled |-> "rejected", reason |-> e]
Consumed == [settled |-> "consumed"]
IsSettled(p) == p.settled # "pending"

\* What a function call does: return a value or throw an error; and the state
\* of the promise of an async function that does it.
Return(v) == [type |-> "return", value |-> v]
Throw(e) == [type |-> "throw", error |-> e]
ToPromise(res) == IF res.type = "return" THEN Fulfilled(res.value) ELSE Rejected(res.error)

\* --------------------------------------------------------------- HTTP
\* `${response.status}`: the number as the decimal text of a template literal.
StatusText(status) ==
  CASE status = 200 -> "200"
    [] status = 404 -> "404"
    [] status = 500 -> "500"

\* response.ok
Ok(response) == response.status >= 200 /\ response.status <= 299

\* The value JSON.parse gives for text that is not JSON.
INVALID == [kind |-> "invalid"]

\* The SyntaxError JSON.parse throws on text `raw`: whether its message quotes
\* the text is the engine's choice.
JsonParseErrors(raw) ==
  {[name |-> "SyntaxError", message |-> <<"Unexpected token">>],
   [name |-> "SyntaxError", message |-> <<"Unexpected token", raw>>]}

\* A response body: its text, what JSON.parse makes of it, and the error
\* JSON.parse throws when it is not JSON.
JsonBody(raw, parsed) == [raw |-> raw, parsed |-> parsed, parseError |-> NULL]
TextBodies(raw) ==
  {[raw |-> raw, parsed |-> INVALID, parseError |-> e] : e \in JsonParseErrors(raw)}

\* What a fetch settles with: a response, or a rejection (network failure).
Response(status, body) == [type |-> "response", status |-> status, body |-> body]
NetworkError == [name |-> "TypeError", message |-> <<"Failed to fetch">>]
FetchRejected == [type |-> "networkError", error |-> NetworkError]

\* new Error(message), the message being the pieces of the template literal.
Error(message) == [name |-> "Error", message |-> message]

\* The TypeError of reading a property of null or undefined.
TypeError == [name |-> "TypeError", message |-> <<"Cannot read properties">>]

\* A string occurs in an error's message.
Contains(err, text) == \E i \in DOMAIN err.message : err.message[i] = text

\* --------------------------------------------------------- API clients
ResumeClient ==
  {"uploadJobDescriptions", "improveResume", "processResumeEnhanced",
   "processJobEnhanced", "analyzeResumeJobMatch", "getResumeMatches",
   "getDashboardData", "getBulkAnalysis", "getComparisonAnalysis",
   "getProcessedResume", "getProcessedJob"}
JobClient == {"uploadJobs", "searchJobs", "getResumeJobs", "deleteJob", "updateJob"}
ApiFunctions == ResumeClient \cup JobClient

\* The text each function's error message starts with.
ErrorPrefix(fn) ==
  CASE fn = "uploadJobDescriptions" -> "Upload failed with status "
    [] fn = "improveResume" -> "Improve failed with status "
    [] fn = "processResumeEnhanced" -> "Enhanced resume processing failed: "
    [] fn = "processJobEnhanced" -> "Enhanced job processing failed: "
    [] fn = "analyzeResumeJobMatch" -> "Match analysis failed: "
    [] fn = "getResumeMatches" -> "Failed to get match history: "
    [] fn = "getDashboardData" -> "Failed to get dashboard data: "
    [] fn = "getBulkAnalysis" -> "Bulk analysis failed: "
    [] fn = "getComparisonAnalysis" -> "Comparison analysis failed: "
    [] fn = "getProcessedResume" -> "Failed to get resume data: "
    [] fn = "getProcessedJob" -> "Failed to get job data: "
    [] fn = "uploadJobs" -> "Job upload failed: "
    [] fn = "searchJobs" -> "Job search failed: "
    [] fn = "getResumeJobs" -> "Failed to get resume jobs: "
    [] fn = "deleteJob" -> "Failed to delete job: "
    [] fn = "updateJob" -> "Failed to update job: "

\* response.json()
ResponseJson(response) ==
  IF response.body.parsed = INVALID THEN Throw(response.body.parseError)
  ELSE Return(response.body.parsed)

\* if (!response.ok) { const errorText = await response.text();
\*   throw new Error(`<prefix>${response.status} - ${errorText}`) }
\* (faulty variant: the body text is left out of the message)
NotOkErrorMut(fn, response) ==
  Error(<<ErrorPrefix(fn), StatusText(response.status)>>)
NotOkError(fn, response) ==
  Error(<<ErrorPrefix(fn), StatusText(response.status), " - ", response.body.raw>>)

\* The body shared by most client functions: one fetch, throw on a non-success
\* status, else return response.json().  A rejected fetch is not caught.
FetchJson(fn, fetched) ==
  IF fetched.type = "networkError" THEN Throw(fetched.error)
  ELSE IF ~Ok(fetched) THEN Throw(NotOkError(fn, fetched))
  ELSE ResponseJson(fetched)

\* uploadJobDescriptions: the error message holds the status only; returns
\* data.job_id[0].
UploadJobDescriptions(fetched) ==
  IF fetched.type = "networkError" THEN Throw(fetched.error)
  ELSE IF ~Ok(fetched)
  THEN Throw(Error(<<ErrorPrefix("uploadJobDescriptions"), StatusText(fetched.status)>>))
  ELSE LET json == ResponseJson(fetched) IN
       IF json.type = "throw" THEN json
       ELSE IF "job_id" \notin DOMAIN json.value \/ ~Truthy(json.value.job_id)
       THEN Throw(TypeError)
       ELSE IF json.value.job_id.items = <<>> THEN Return(UNDEFINED)
       ELSE Return(json.value.job_id.items[1])

\* improveResume: the network error is caught, logged and rethrown; the body
\* is read as text first; the JSON.parse error is caught, logged and rethrown.
\* (faulty variant: the network error is replaced by a new error and the
\* body is read with response.json())
ImproveResumeMut(fetched) ==
  IF fetched.type = "networkError" THEN Throw(Error(<<"Network error">>))
  ELSE FetchJson("improveResume", fetched)
ImproveResume(fetched) ==
  IF fetched.type = "networkError" THEN Throw(fetched.error)
  ELSE LET text == fetched.body.raw IN
       IF ~Ok(fetched)
       THEN Throw(Error(<<ErrorPrefix("improveResume"), StatusText(fetched.status),
                          ": ", text>>))
       ELSE IF fetched.body.parsed = INVALID THEN Throw(fetched.body.parseError)
       ELSE Return(fetched.body.parsed)

\* getResumeJobs: returns data.jobs || [].
\* (faulty variant: returns data.jobs)
GetResumeJobsMut(fetched) ==
  LET json == FetchJson("getResumeJobs", fetched) IN
  IF json.type = "throw" THEN json
  ELSE IF ~Truthy(json.value) THEN Throw(TypeError)
  ELSE IF "jobs" \in DOMAIN json.value THEN Return(json.value.jobs)
  ELSE Return(UNDEFINED)
GetResumeJobs(fetched) ==
  LET json == FetchJson("getResumeJobs", fetched) IN
  IF json.type = "throw" THEN json
  ELSE IF ~Truthy(json.value) THEN Throw(TypeError)
  ELSE IF "jobs" \in DOMAIN json.value /\ Truthy(json.value.jobs)
  THEN Return(json.value.jobs)
  ELSE Return(ArrayOf(<<>>))

\* deleteJob: returns nothing; the body of a success response is not read.
DeleteJob(fetched) ==
  IF fetched.type = "networkError" THEN Throw(fetched.error)
  ELSE IF ~Ok(fetched) THEN Throw(NotOkError("deleteJob", fetched))
  ELSE Return(UNDEFINED)

\* What a call of fn does once its fetch has settled with `fetched` (for
\* uploadJobs: what the .then chain of one of its fetches does).
ApiResult(fn, fetched) ==
  CASE fn = "uploadJobDescriptions" -> UploadJobDescriptions(fetched)
    [] fn = "improveResume" -> ImproveResume(fetched)
    [] fn = "getResumeJobs" -> GetResumeJobs(fetched)
    [] fn = "deleteJob" -> DeleteJob(fetched)
    [] OTHER -> FetchJson(fn, fetched)

\* The number of fetch calls one invocation makes: uploadJobs maps fetch over
\* its n descriptions, every other function awaits a single fetch.
FetchCount(fn, n) == IF fn = "uploadJobs" THEN n ELSE 1

\* ------------------------------------------------------------ backend
\* The responses the backend gives the dashboard's requests.
ServerError == {Response(500, b) : b \in TextBodies("Internal Server Error")}

DashboardResponses(r) ==
  {Response(200, JsonBody("dashboard.json", DashboardOf(r)))} \cup ServerError

BulkResponses(r) ==
  {Response(200, JsonBody("bulk.json", BulkOf(r)))} \cup ServerError

JobsResponses(r, cap) ==
  {Response(200, JsonBody("jobs.json", [kind |-> "object", jobs |-> JobList(r, n)])) :
     n \in 0..cap}
  \cup {Response(200, JsonBody("nojobs.json", [kind |-> "object"])),
        Response(200, JsonBody("nulljobs.json", [kind |-> "object", jobs |-> NULL])),
        Response(200, JsonBody("badjobs.json", [kind |-> "object", jobs |-> NotAnArray]))}
  \cup ServerError

MatchResponses(req) ==
  {Response(200, JsonBody("match.json", MatchOf(req)))} \cup ServerError

\* ---------------------------------------------------------- component
\* promise.catch(() => fallback): the value the wrapped promise fulfils with.
\* (faulty variant: every call falls back to [])
CaughtMut(p, fallback) == IF p.settled = "rejected" THEN ArrayOf(<<>>) ELSE p.value
Caught(p, fallback) == IF p.settled = "rejected" THEN fallback ELSE p.value

\* jobs.slice(0, 6)
\* (faulty variant: no cap)
SliceMut(jobs) == jobs
Slice(jobs) == SubSeq(jobs, 1, Min(Len(jobs), DisplayCap))

\* if (jobs.length > 0), line 46.
\* (faulty variant: the fan-out and the write of jobMatches are not guarded)
HasJobsMut(jobs) == TRUE
HasJobs(jobs) == Len(jobs) > 0

\* The request object of one match analysis (lines 49-54).
\* (faulty variant: every request names the first job of the resume)
MatchRequestMut(r, job) ==
  [resume_id |-> r, job_id |-> <<r, 1>>,
   include_recommendations |-> TRUE, include_ai_insights |-> TRUE]
MatchRequest(r, job) ==
  [resume_id |-> r, job_id |-> job.job_id,
   include_recommendations |-> TRUE, include_ai_insights |-> TRUE]

\* The async arrow mapped over the displayed jobs: { jobId, match } when the
\* call fulfils, null when it rejects (the rejection is logged and dropped).
\* (faulty variant: the catch block returns { jobId, match: null })
MatchBranchMut(job, call) ==
  Fulfilled([kind |-> "entry", jobId |-> job.job_id,
             match |-> IF call.settled = "fulfilled" THEN call.value ELSE NULL])
MatchBranch(job, call) ==
  IF call.settled = "fulfilled"
  THEN Fulfilled([kind |-> "entry", jobId |-> job.job_id, match |-> call.value])
  ELSE Fulfilled(NULL)

\* matchResults.forEach(result => { if (result) matchMap[result.jobId] = result.match })
RECURSIVE FoldMatches(_, _)
FoldMatches(matchResults, matchMap) ==
  IF matchResults = <<>> THEN matchMap
  ELSE LET result == Head(matchResults)
           next == IF result = NULL THEN matchMap
                   ELSE [j \in DOMAIN matchMap \cup {result.jobId} |->
                           IF j = result.jobId THEN result.match ELSE matchMap[j]]
       IN FoldMatches(Tail(matchResults), next)

\* await Promise.all(ps), no promise of ps rejecting: resumes once every
\* promise of ps is fulfilled.
AllSettled(ps) == \A i \in DOMAIN ps : IsSettled(ps[i])

\* await Promise.all(matchPromises)
\* (faulty variant: resumes as soon as one branch has settled)
MatchesSettledMut(L) == \E i \in DOMAIN L.matchPromises : IsSettled(L.matchPromises[i])
MatchesSettled(L) == AllSettled(L.matchPromises)

\* A branch returns its value and writes no state: jobMatches after branch
\* i of load L has turned `call` into its value.
\* (faulty variant: each branch adds its own entry to jobMatches)
JobMatchesAfterBranchMut(L, i, call) ==
  IF call.settled = "fulfilled"
  THEN [j \in DOMAIN jobMatches \cup {L.fanout[i].job_id} |->
          IF j = L.fanout[i].job_id THEN call.value ELSE jobMatches[j]]
  ELSE jobMatches
JobMatchesAfterBranch(L, i, call) == jobMatches

\* finally { setLoading(false) }, lines 74-76: loading once the load has
\* completed or thrown.
\* (faulty variant: no finally block)
LoadingAfterFinallyMut == loading
LoadingAfterFinally == FALSE

\* finally { setLoading(false) }: runs when the try block has completed or
\* thrown, which it has not while it awaits the match analyses.
\* (faulty variant: setLoading(false) right after the first await)
LoadingAfterInitialMut(awaitsMatches) == FALSE
LoadingAfterInitial(awaitsMatches) == IF awaitsMatches THEN loading ELSE LoadingAfterFinally

\* catch (err) { setError('Failed to load dashboard data') }
\* (faulty variant: the catch block only logs)
CatchErrorMut == error
CatchError == "Failed to load dashboard data"

\* The component's render branch: skeleton, error panel (with the Retry
\* button), or the dashboard.
Render ==
  IF loading THEN "skeleton"
  ELSE IF error # NoError THEN "errorPanel"
  ELSE "dashboard"

\* ----------------------------------------------------- requests, console
\* A request as the component issues it: the load that issued it, the API
\* client function called and its argument.
Request(k, fn, request) == [load |-> k, fn |-> fn, request |-> request]

\* The three calls of lines 36-38, in call order.
InitialRequests(k, r) ==
  <<Request(k, "getDashboardData", [resume_id |-> r]),
    Request(k, "getResumeJobs", [resume_id |-> r]),
    Request(k, "getBulkAnalysis", [resume_id |-> r])>>

\* jobs.slice(0, 6).map(async (job) => ...): every arrow runs up to its await,
\* which calls analyzeResumeJobMatch once.
MatchRequests(k, r, shown) ==
  [i \in DOMAIN shown |-> Request(k, "analyzeResumeJobMatch", MatchRequest(r, shown[i]))]

\* The requests issued once branch i of load k has turned `call` into its
\* value: the catch block logs and returns null, it calls nothing.
\* (faulty variant: a failed analysis is requested again)
SentAfterBranchMut(k, i, call) ==
  IF call.settled = "rejected"
  THEN Append(sent, Request(k, "analyzeResumeJobMatch", loads[k].requests[i]))
  ELSE sent
SentAfterBranch(k, i, call) == sent

\* console.error(`Failed to analyze match for job ${job.job_id}:`, error)
AnalyzeFailedLine(job) ==
  [job |-> job.job_id, level |-> "error", text |-> "Failed to analyze match for job"]

\* console.error('Failed to load dashboard:', err)
LoadFailedLine(err) ==
  [err |-> err.name, level |-> "error", text |-> "Failed to load dashboard:"]

\* -------------------------------------------------------------- loads
\* A loadDashboardData task: the resumeId its closure captured, its place, the
\* three initial API promises, the jobs it fans out over, the requests it has
\* issued for them, the API promise and the branch promise of every job, and
\* what it has done.  The locals of a continuation that has run are dropped.
NewLoad(r) ==
  [resumeId |-> r, pc |-> "awaitInitial",
   dashboard |-> Pending, jobs |-> Pending, bulk |-> Pending,
   jobsResponse |-> Pending,
   fanout |-> <<>>, requests |-> <<>>, matchCalls |-> <<>>, matchPromises |-> <<>>,
   threw |-> FALSE, matchWrites |-> 0]

Finished(L, threw, matchWrites) ==
  [NewLoad(L.resumeId) EXCEPT !.pc = "done",
     !.dashboard = Consumed, !.jobs = Consumed, !.bulk = Consumed,
     !.jobsResponse = L.jobsResponse,
     !.threw = threw, !.matchWrites = matchWrites]

\* No API client call in progress.
ApiIdle ==
  [stage |-> "idle", fn |-> "none", n |-> 0, fetched |-> <<>>, branches |-> <<>>,
   result |-> Pending]

\* No presentational component under study.
NoView == [component |-> "none", stage |-> "none"]

\* The dashboard as mounted: the useState initial values of lines 22-28, no
\* load started, nothing requested or logged.
InitDashboard ==
  /\ resumeId \in Resumes
  /\ effectPending = TRUE
  /\ dashboardData = NULL
  /\ bulkAnalysis = NULL
  /\ recentJobs = <<>>
  /\ jobMatches = EmptyMap
  /\ loading = TRUE
  /\ error = NoError
  /\ activeTab = "overview"
  /\ loads = <<>>
  /\ sent = <<>>
  /\ console = {}
  /\ api = ApiIdle

Init ==
  /\ InitDashboard
  /\ view = NoView

\* useEffect(() => { loadDashboardData() }, [resumeId]): the effect of the
\* latest render runs; the task runs synchronously up to its first await.
RunEffect ==
  /\ effectPending
  /\ effectPending' = FALSE
  /\ loading' = TRUE
  /\ loads' = Append(loads, NewLoad(resumeId))
  /\ sent' = sent \o InitialRequests(Len(loads) + 1, resumeId)
  /\ UNCHANGED <<resumeId, dashboardData, bulkAnalysis, recentJobs, jobMatches, error,
                 activeTab, console, api, view>>

\* The parent renders the component with another resumeId.
ChangeResumeId(r) ==
  /\ ~effectPending
  /\ r # resumeId
  /\ loads # <<>>
  /\ Len(loads) < MaxLoads
  /\ resumeId' = r
  /\ effectPending' = TRUE
  /\ UNCHANGED <<dashboardData, bulkAnalysis, recentJobs, jobMatches, loading, error,
                 activeTab, loads, sent, console, api, view>>

\* One of the three initial API promises of load k settles.
SettleInitial(k, call, outcome) ==
  /\ loads[k][call] = Pending
  /\ loads' = [loads EXCEPT ![k][call] = outcome]
  /\ UNCHANGED <<resumeId, effectPending, dashboardData, bulkAnalysis, recentJobs,
                 jobMatches, loading, error, activeTab, sent, console, api, view>>

SettleDashboard(k) ==
  \E response \in DashboardResponses(loads[k].resumeId) :
    SettleInitial(k, "dashboard", ToPromise(ApiResult("getDashboardData", response)))

SettleBulk(k) ==
  \E response \in BulkResponses(loads[k].resumeId) :
    SettleInitial(k, "bulk", ToPromise(ApiResult("getBulkAnalysis", response)))

SettleJobs(k, cap) ==
  \E response \in JobsResponses(loads[k].resumeId, cap) :
    /\ loads[k].jobs = Pending
    /\ loads' = [loads EXCEPT
         ![k].jobs = ToPromise(ApiResult("getResumeJobs", response)),
         ![k].jobsResponse = response]
    /\ UNCHANGED <<resumeId, effectPending, dashboardData, bulkAnalysis, recentJobs,
                   jobMatches, loading, error, activeTab, sent, console, api, view>>

\* The continuation after the first await Promise.all: lines 41-62, and the
\* catch and finally blocks when it throws or has no job to analyze.
InitialJoin(k) ==
  LET L == loads[k]
      dashboard == Caught(L.dashboard, NULL)
      jobs == Caught(L.jobs, ArrayOf(<<>>))
      bulk == Caught(L.bulk, NULL)
  IN
  /\ L.pc = "awaitInitial"
  /\ AllSettled(<<L.dashboard, L.jobs, L.bulk>>)
  /\ dashboardData' = dashboard
  /\ IF ~IsArray(jobs)
     THEN \* jobs.slice is not a function: the TypeError is caught at line 71
          /\ error' = CatchError
          /\ loading' = LoadingAfterFinally
          /\ loads' = [loads EXCEPT ![k] = Finished(L, TRUE, 0)]
          /\ console' = console \cup {LoadFailedLine(TypeError)}
          /\ UNCHANGED <<recentJobs, bulkAnalysis, jobMatches, sent>>
     ELSE /\ recentJobs' = Slice(jobs.items)
          /\ bulkAnalysis' = bulk
          /\ loading' = LoadingAfterInitial(HasJobs(jobs.items))
          /\ IF HasJobs(jobs.items)
             THEN LET shown == Slice(jobs.items) IN
                  /\ sent' = sent \o MatchRequests(k, L.resumeId, shown)
                  /\ loads' = [loads EXCEPT
                     ![k].pc = "awaitMatches",
                     ![k].dashboard = Consumed,
                     ![k].bulk = Consumed,
                     ![k].fanout = shown,
                     ![k].requests = [i \in DOMAIN shown |->
                                        MatchRequest(L.resumeId, shown[i])],
                     ![k].matchCalls = [i \in DOMAIN shown |-> Pending],
                     ![k].matchPromises = [i \in DOMAIN shown |-> Pending]]
             ELSE /\ loads' = [loads EXCEPT ![k] = Finished(L, FALSE, 0)]
                  /\ UNCHANGED sent
          /\ UNCHANGED <<error, jobMatches, console>>
  /\ UNCHANGED <<resumeId, effectPending, activeTab, api, view>>

\* The analyzeResumeJobMatch call of branch i of load k settles and the
\* branch's try/catch turns it into the branch's value.
SettleMatch(k, i) ==
  LET L == loads[k] IN
  /\ L.matchCalls[i] = Pending
  /\ \E response \in MatchResponses(L.requests[i]) :
       LET call == ToPromise(ApiResult("analyzeResumeJobMatch", response)) IN
       /\ loads' = [loads EXCEPT ![k].matchCalls[i] = call,
                                 ![k].matchPromises[i] = MatchBranch(L.fanout[i], call)]
       /\ jobMatches' = JobMatchesAfterBranch(L, i, call)
       /\ sent' = SentAfterBranch(k, i, call)
       /\ console' = IF call.settled = "rejected"
                     THEN console \cup {AnalyzeFailedLine(L.fanout[i])}
                     ELSE console
  /\ UNCHANGED <<resumeId, effectPending, dashboardData, bulkAnalysis, recentJobs,
                 loading, error, activeTab, api, view>>

\* The continuation after await Promise.all(matchPromises): lines 63-69, then
\* the finally block.
MatchJoin(k) ==
  LET L == loads[k]
      settled == SelectSeq(L.matchPromises, IsSettled)
      matchResults == [i \in DOMAIN settled |-> settled[i].value]
  IN
  /\ L.pc = "awaitMatches"
  /\ MatchesSettled(L)
  /\ jobMatches' = FoldMatches(matchResults, EmptyMap)
  /\ loading' = LoadingAfterFinally
  /\ loads' = [loads EXCEPT ![k] = Finished(L, FALSE, L.matchWrites + 1)]
  /\ UNCHANGED <<resumeId, effectPending, dashboardData, bulkAnalysis, recentJobs,
                 error, activeTab, sent, console, api, view>>

\* The Retry button of the error panel: window.location.reload() discards the
\* page and mounts a fresh component for the same resumeId.
Retry ==
  /\ Render = "errorPanel"
  /\ effectPending' = TRUE
  /\ dashboardData' = NULL
  /\ bulkAnalysis' = NULL
  /\ recentJobs' = <<>>
  /\ jobMatches' = EmptyMap
  /\ loading' = TRUE
  /\ error' = NoError
  /\ activeTab' = "overview"
  /\ loads' = <<>>
  /\ sent' = <<>>
  /\ console' = {}
  /\ UNCHANGED <<resumeId, api, view>>

\* ------------------------------------------------------ tabs and cards
Tabs == {"overview", "matches", "analytics"}

\* onClick={() => setActiveTab(t)}: the tab buttons are part of the main
\* return, which the skeleton and the error panel replace.
SetActiveTab(t) ==
  /\ Render = "dashboard"
  /\ activeTab' = t
  /\ UNCHANGED <<resumeId, effectPending, dashboardData, bulkAnalysis, recentJobs,
                 jobMatches, loading, error, loads, sent, console, api, view>>

\* The jobs a JobMatchCard is rendered for (lines 266-291): on the Job Matches
\* tab, the jobs of recentJobs whose jobMatches entry is truthy, in order.
\* (faulty variant: a card for every job of recentJobs)
HasMatchMut(job) == TRUE
HasMatch(job) == job.job_id \in DOMAIN jobMatches /\ Truthy(jobMatches[job.job_id])
Cards ==
  IF Render = "dashboard" /\ activeTab = "matches"
  THEN SelectSeq(recentJobs, HasMatch)
  ELSE <<>>

\* The count in the header of the Job Matches tab, line 271.
MatchesHeader == Len(recentJobs)

\* console.log(text, jobId)
LogLine(text, jobId) == [job |-> jobId, level |-> "log", text |-> text]
Clicks == {line \in console : line.level = "log"}

\* The Apply button of a card: onApplyToJob(jobData.job_id), lines 82-86.
\* (faulty variant: the handler posts the application to the backend)
HandleApplyToJobMut(jobId) ==
  /\ \E i \in DOMAIN Cards : Cards[i].job_id = jobId
  /\ Cardinality(Clicks) < MaxClicks
  /\ console' = console \cup {LogLine("Applying to job:", jobId)}
  /\ sent' = Append(sent, Request(Len(loads), "applyToJob", [job_id |-> jobId]))
  /\ UNCHANGED <<resumeId, effectPending, dashboardData, bulkAnalysis, recentJobs,
                 jobMatches, loading, error, activeTab, loads, api, view>>
HandleApplyToJob(jobId) ==
  /\ \E i \in DOMAIN Cards : Cards[i].job_id = jobId
  /\ Cardinality(Clicks) < MaxClicks
  /\ console' = console \cup {LogLine("Applying to job:", jobId)}
  /\ UNCHANGED <<resumeId, effectPending, dashboardData, bulkAnalysis, recentJobs,
                 jobMatches, loading, error, activeTab, loads, sent, api, view>>

\* The Save button of a card: onSaveJob(jobData.job_id), lines 88-92.
HandleSaveJob(jobId) ==
  /\ \E i \in DOMAIN Cards : Cards[i].job_id = jobId
  /\ Cardinality(Clicks) < MaxClicks
  /\ console' = console \cup {LogLine("Saving job:", jobId)}
  /\ UNCHANGED <<resumeId, effectPending, dashboardData, bulkAnalysis, recentJobs,
                 jobMatches, loading, error, activeTab, loads, sent, api, view>>

\* Every job_id a job of the page may have.
JobIds == {Job(r, i).job_id : r \in Resumes, i \in 1..MaxJobs}

Next ==
  \/ RunEffect
  \/ \E r \in Resumes : ChangeResumeId(r)
  \/ \E k \in DOMAIN loads : SettleDashboard(k)
  \/ \E k \in DOMAIN loads : SettleJobs(k, MaxJobsShort)
  \/ \E k \in DOMAIN loads : SettleBulk(k)
  \/ \E k \in DOMAIN loads : InitialJoin(k)
  \/ \E k \in DOMAIN loads : \E i \in DOMAIN loads[k].matchCalls : SettleMatch(k, i)
  \/ \E k \in DOMAIN loads : MatchJoin(k)
  \/ Retry

Spec == Init /\ [][Next]_vars

\* One mounted component whose resumeId never changes, the backend returning
\* job lists longer than the display cap.
NextSingle ==
  \/ RunEffect
  \/ \E k \in DOMAIN loads : SettleDashboard(k)
  \/ \E k \in DOMAIN loads : SettleJobs(k, MaxJobs)
  \/ \E k \in DOMAIN loads : SettleBulk(k)
  \/ \E k \in DOMAIN loads : InitialJoin(k)
  \/ \E k \in DOMAIN loads : \E i \in DOMAIN loads[k].matchCalls : SettleMatch(k, i)
  \/ \E k \in DOMAIN loads : MatchJoin(k)
  \/ Retry
  \/ \E t \in Tabs : SetActiveTab(t)
  \/ \E jobId \in JobIds : HandleApplyToJob(jobId)
  \/ \E jobId \in JobIds : HandleSaveJob(jobId)

SpecSingle == Init /\ [][NextSingle]_vars

\* One mounted component left alone by the user: its load runs to its end.
NextLoad ==
  \/ RunEffect
  \/ \E k \in DOMAIN loads : SettleDashboard(k)
  \/ \E k \in DOMAIN loads : SettleJobs(k, MaxJobsShort + 1)
  \/ \E k \in DOMAIN loads : SettleBulk(k)
  \/ \E k \in DOMAIN loads : InitialJoin(k)
  \/ \E k \in DOMAIN loads : \E i \in DOMAIN loads[k].matchCalls : SettleMatch(k, i)
  \/ \E k \in DOMAIN loads : MatchJoin(k)

\* Every issued request settles in the end (the premise on the network).
RequestsSettle ==
  /\ WF_vars(\E k \in DOMAIN loads : SettleDashboard(k))
  /\ WF_vars(\E k \in DOMAIN loads : SettleJobs(k, MaxJobsShort + 1))
  /\ WF_vars(\E k \in DOMAIN loads : SettleBulk(k))
  /\ WF_vars(\E k \in DOMAIN loads : \E i \in DOMAIN loads[k].matchCalls : SettleMatch(k, i))

\* The event loop runs every effect and every continuation that is ready.
EventLoopRuns ==
  /\ WF_vars(RunEffect)
  /\ WF_vars(\E k \in DOMAIN loads : InitialJoin(k))
  /\ WF_vars(\E k \in DOMAIN loads : MatchJoin(k))

SpecLoad == Init /\ [][NextLoad]_vars /\ RequestsSettle /\ EventLoopRuns

\* ------------------------------------------------- API client calls
\* The bodies the backend may answer a call of fn with: the DTO of fn as
\* JSON, or text that is not JSON.
Dtos(fn) ==
  CASE fn = "uploadJobDescriptions" ->
         {[kind |-> "object", job_id |-> ArrayOf(<<"job-1">>)]}
    [] fn = "getResumeJobs" ->
         {[kind |-> "object", jobs |-> JobList("r1", 1)], [kind |-> "object"],
          [kind |-> "object", jobs |-> NULL]}
    [] fn = "uploadJobs" ->
         {[kind |-> "object", dto |-> fn, job_id |-> id] : id \in {"job-1", "job-2"}}
    [] OTHER -> {[kind |-> "object", dto |-> fn]}

Bodies(fn) == {JsonBody("dto.json", d) : d \in Dtos(fn)} \cup TextBodies("oops")

Statuses == {200, 404, 500}

\* What one fetch of fn may settle with.
FetchOutcomes(fn) ==
  {Response(st, b) : st \in Statuses, b \in Bodies(fn)} \cup {FetchRejected}

\* Promise.all(ps), whose promise was `current` before one more of ps settled:
\* rejects with the first rejection, fulfils with the values in the order of ps.
\* (faulty variant: a rejection is dropped and the values of the fulfilled
\* promises are the result)
PromiseAllMut(ps, current) ==
  IF IsSettled(current) THEN current
  ELSE IF \A i \in DOMAIN ps : IsSettled(ps[i])
  THEN Fulfilled(ArrayOf(SelectSeq([i \in DOMAIN ps |-> ps[i]],
                                   LAMBDA p : p.settled = "fulfilled")))
  ELSE Pending
PromiseAll(ps, current) ==
  IF IsSettled(current) THEN current
  ELSE IF \E i \in DOMAIN ps : ps[i].settled = "rejected"
  THEN Rejected(ps[CHOOSE i \in DOMAIN ps : ps[i].settled = "rejected"].reason)
  ELSE IF \A i \in DOMAIN ps : ps[i].settled = "fulfilled"
  THEN Fulfilled(ArrayOf([i \in DOMAIN ps |-> ps[i].value]))
  ELSE Pending

\* fn is called (uploadJobs with n descriptions) and issues its fetches.
ApiInvoke(fn, n) ==
  /\ api.stage = "idle"
  /\ n = 1 \/ fn = "uploadJobs"
  /\ LET issued == [i \in 1..FetchCount(fn, n) |-> Pending] IN
     api' = [stage |-> "called", fn |-> fn, n |-> n,
             fetched |-> issued, branches |-> issued,
             result |-> IF fn = "uploadJobs" THEN PromiseAll(issued, Pending)
                        ELSE Pending]
  /\ UNCHANGED <<dashVars, view>>

\* Fetch i of the call settles; the code after it runs.
ApiFetchSettle(i) ==
  /\ api.stage = "called"
  /\ api.fetched[i] = Pending
  /\ \E fetched \in FetchOutcomes(api.fn) :
       LET branch == ToPromise(ApiResult(api.fn, fetched))
           branches == [api.branches EXCEPT ![i] = branch]
       IN api' = [api EXCEPT !.fetched[i] = fetched,
                             !.branches = branches,
                             !.result = IF api.fn = "uploadJobs"
                                        THEN PromiseAll(branches, api.result)
                                        ELSE branch]
  /\ UNCHANGED <<dashVars, view>>

\* The caller has the outcome and every fetch has settled.
ApiReturn ==
  /\ api.stage = "called"
  /\ IsSettled(api.result)
  /\ \A i \in DOMAIN api.fetched : api.fetched[i] # Pending
  /\ api' = ApiIdle
  /\ UNCHANGED <<dashVars, view>>

NextApi ==
  \/ \E fn \in ApiFunctions : \E n \in 0..MaxDescriptions : ApiInvoke(fn, n)
  \/ \E i \in DOMAIN api.fetched : ApiFetchSettle(i)
  \/ ApiReturn

\* The API client functions called one at a time.
SpecApi == Init /\ [][NextApi]_vars

\* --------------------------------------------- presentational components
\* The scores a backend may send: 0..100 and, should it break the bound,
\* a little beyond on either side.
Scores == (0 - MaxOver)..(100 + MaxOver)

\* Sub-scores around the band boundaries.
SubScores == {59, 60, 79, 80}

\* An optional number (a prop or field that may be undefined): <<>> or <<n>>.
None == <<>>
Some(n) == <<n>>

\* a || b on optional numbers: a when it is a number other than 0.
OrElse(a, b) == IF a # None /\ a[1] # 0 THEN a ELSE b

\* job-match-card.tsx lines 35-39
getMatchColor(score) ==
  IF score >= 80 THEN "text-green-500"
  ELSE IF score >= 60 THEN "text-yellow-500"
  ELSE "text-red-500"

\* job-match-card.tsx lines 41-45
\* (faulty variant: > for >=)
getMatchBadgeColorMut(score) ==
  IF score > 80 THEN "bg-green-500"
  ELSE IF score > 60 THEN "bg-yellow-500"
  ELSE "bg-red-500"
getMatchBadgeColor(score) ==
  IF score >= 80 THEN "bg-green-500"
  ELSE IF score >= 60 THEN "bg-yellow-500"
  ELSE "bg-red-500"

\* job-match-card.tsx lines 47-53
\* (faulty variant: > for >=)
getMatchTextMut(score) ==
  IF score > 90 THEN "Excellent Match"
  ELSE IF score > 80 THEN "Very Good Match"
  ELSE IF score > 70 THEN "Good Match"
  ELSE IF score > 60 THEN "Fair Match"
  ELSE "Needs Improvement"
getMatchText(score) ==
  IF score >= 90 THEN "Excellent Match"
  ELSE IF score >= 80 THEN "Very Good Match"
  ELSE IF score >= 70 THEN "Good Match"
  ELSE IF score >= 60 THEN "Fair Match"
  ELSE "Needs Improvement"

\* ResumeAnalysis, lines 424-428
getScoreColor(value) ==
  IF value >= 80 THEN "text-green-500"
  ELSE IF value >= 60 THEN "text-yellow-500"
  ELSE "text-red-500"

\* ResumeAnalysis, lines 430-436
getScoreText(value) ==
  IF value >= 90 THEN "Excellent"
  ELSE IF value >= 80 THEN "Very Good"
  ELSE IF value >= 70 THEN "Good"
  ELSE IF value >= 60 THEN "Fair"
  ELSE "Needs Improvement"

\* The class of the overall score bar, line 552.
\* (faulty variant: the bar turns green at 75)
BarColorMut(overallScore) ==
  IF overallScore >= 75 THEN "bg-green-500"
  ELSE IF overallScore >= 60 THEN "bg-yellow-500"
  ELSE "bg-red-500"
BarColor(overallScore) ==
  IF overallScore >= 80 THEN "bg-green-500"
  ELSE IF overallScore >= 60 THEN "bg-yellow-500"
  ELSE "bg-red-500"

\* Math.min(100, Math.max(0, overallScore)), line 553.
Max(a, b) == IF a >= b THEN a ELSE b
\* (faulty variant: the score is used as the width)
BarWidthMut(overallScore) == overallScore
BarWidth(overallScore) == Min(100, Max(0, overallScore))

\* ImprovementSuggestion.priority
Priorities == {"low", "medium", "high", "critical"}

\* A recommendation; its text tells the recommendations of one list apart.
Suggestion(priority, text) == [priority |-> priority, suggestion |-> text]

\* The recommendation lists of at most n entries.
RecLists(n) ==
  UNION {{[i \in 1..m |-> Suggestion(ps[i], i)] : ps \in [1..m -> Priorities]} : m \in 0..n}

\* (r) => r.priority === 'critical' || r.priority === 'high'
\* (faulty variant: everything above low counts)
IsPriorityMut(r) == r.priority # "low"
IsPriority(r) == r.priority = "critical" \/ r.priority = "high"

\* matchResult.recommendations?.filter(...) || [], lines 64-66.
\* (faulty variant: the retained recommendations come out newest first)
PrioritySuggestionsMut(matchResult) ==
  IF matchResult.recommendations = UNDEFINED THEN <<>>
  ELSE LET kept == SelectSeq(matchResult.recommendations.items, IsPriority)
       IN [i \in DOMAIN kept |-> kept[Len(kept) + 1 - i]]
PrioritySuggestions(matchResult) ==
  IF matchResult.recommendations = UNDEFINED THEN <<>>
  ELSE SelectSeq(matchResult.recommendations.items, IsPriority)

\* {prioritySuggestions.length > 0 && (... {length} Priority Issues ...)},
\* lines 120-124.
PriorityBadge(prioritySuggestions) ==
  [shown |-> Len(prioritySuggestions) > 0, count |-> Len(prioritySuggestions)]

\* A ResumeJobMatchResult as JobMatchCard reads it.
MatchResult(score, skills, experience, keywords, recommendations) ==
  [match_score |-> score,
   detailed_analysis |-> [skills_match |-> skills, experience_match |-> experience,
                          keyword_coverage |-> keywords],
   recommendations |-> recommendations]

\* The match results a card is rendered with: every score with sub-scores
\* around the boundaries, and every recommendation list (or none).
CardProps ==
  {MatchResult(s, a, b, c, UNDEFINED) : s \in Scores, a \in SubScores, b \in SubScores,
                                        c \in SubScores}
  \cup {MatchResult(80, 60, 60, 60, ArrayOf(recs)) : recs \in RecLists(MaxRecs)}

\* What JobMatchCard renders from matchResult.
RenderJobMatchCard ==
  /\ view.component = "JobMatchCard" /\ view.stage = "props"
  /\ LET m == view.matchResult
         prioritySuggestions == PrioritySuggestions(m)
     IN view' = [component |-> "JobMatchCard", stage |-> "rendered", matchResult |-> m,
                 badge |-> getMatchBadgeColor(m.match_score),
                 text |-> getMatchText(m.match_score),
                 overall |-> getMatchColor(m.match_score),
                 skills |-> getMatchColor(m.detailed_analysis.skills_match),
                 experience |-> getMatchColor(m.detailed_analysis.experience_match),
                 keywords |-> getMatchColor(m.detailed_analysis.keyword_coverage),
                 prioritySuggestions |-> prioritySuggestions,
                 priorityBadge |-> PriorityBadge(prioritySuggestions)]
  /\ UNCHANGED <<dashVars, api>>

\* A ProcessedResume as ResumeAnalysis reads it.
Resume(aiScores, ats) == [ai_analysis_scores |-> aiScores, ats_compatibility_score |-> ats]
AiScores(overall, keywords, structure) ==
  [overall_score |-> overall, keyword_optimization |-> keywords,
   structure_quality |-> structure]

\* The props ResumeAnalysis is rendered with: resume data with or without AI
\* scores, or only the legacy score prop, or nothing.
AnalysisProps ==
  {[resumeAnalysis |-> Some(Resume(Some(AiScores(s, k, q)), a)), score |-> None] :
      s \in Scores, k \in SubScores, q \in SubScores, a \in SubScores}
  \cup {[resumeAnalysis |-> Some(Resume(Some(AiScores(0, 60, 60)), 60)), score |-> Some(s)] :
      s \in Scores}
  \cup {[resumeAnalysis |-> Some(Resume(None, a)), score |-> legacy] :
      a \in SubScores, legacy \in {None} \cup {Some(s) : s \in Scores}}
  \cup {[resumeAnalysis |-> None, score |-> legacy] :
      legacy \in {None} \cup {Some(s) : s \in Scores}}

\* aiScores?.x || 0 and analysisData?.x || 0
FieldOr0(holder, field) ==
  IF holder = None THEN 0 ELSE OrElse(Some(holder[1][field]), Some(0))[1]

\* const overallScore = aiScores?.overall_score || score || 0, line 442.
OverallScore(aiScores, score) ==
  LET ai == IF aiScores = None THEN None ELSE Some(aiScores[1].overall_score)
  IN OrElse(OrElse(ai, score), Some(0))[1]

\* What ResumeAnalysis renders (lines 438-443, 495-520, 546-578).
RenderResumeAnalysis ==
  /\ view.component = "ResumeAnalysis" /\ view.stage = "props"
  /\ LET analysisData == view.props.resumeAnalysis
         aiScores == IF analysisData = None THEN None
                     ELSE analysisData[1].ai_analysis_scores
         overallScore == OverallScore(aiScores, view.props.score)
         atsScore == FieldOr0(analysisData, "ats_compatibility_score")
     IN view' = [component |-> "ResumeAnalysis", stage |-> "rendered", props |-> view.props,
                 overallScore |-> overallScore,
                 overall |-> getScoreColor(overallScore),
                 text |-> getScoreText(overallScore),
                 bar |-> BarColor(overallScore),
                 width |-> BarWidth(overallScore),
                 ats |-> getScoreColor(atsScore),
                 keywords |-> getScoreColor(FieldOr0(aiScores, "keyword_optimization")),
                 structure |-> getScoreColor(FieldOr0(aiScores, "structure_quality"))]
  /\ UNCHANGED <<dashVars, api>>

\* The bucketing policy of the match-score histogram
\* (jobs_by_match_score: excellent, good, fair, poor).
IsExcellent(score) == score >= 90 /\ score <= 100
IsGoodMut(score) == score >= 75 /\ score <= 90
IsGood(score) == score >= 75 /\ score < 90
IsFairMut(score) == score > 60 /\ score < 75
IsFair(score) == score >= 60 /\ score < 75
IsPoor(score) == score < 60

\* The number of scores of a list that fall into each bucket.
Histogram(scores) ==
  [excellent |-> Len(SelectSeq(scores, IsExcellent)),
   good |-> Len(SelectSeq(scores, IsGood)),
   fair |-> Len(SelectSeq(scores, IsFair)),
   poor |-> Len(SelectSeq(scores, IsPoor))]

\* Match scores at and around the bucket boundaries, and two out of range.
HistScores == {0 - 1, 0, 40, 59, 60, 72, 74, 75, 89, 90, 95, 100, 101}

\* The score lists of at most n match results.
ScoreLists(n) == UNION {[1..m -> HistScores] : m \in 0..n}

\* The histogram of a list of match scores is computed.
RenderHistogram ==
  /\ view.component = "MatchHistogram" /\ view.stage = "props"
  /\ view' = [component |-> "MatchHistogram", stage |-> "rendered",
              scores |-> view.scores, histogram |-> Histogram(view.scores)]
  /\ UNCHANGED <<dashVars, api>>

\* A presentational component mounted with props drawn from its inputs.
InitView ==
  /\ InitDashboard
  /\ view \in {[component |-> "JobMatchCard", stage |-> "props", matchResult |-> m] :
                  m \in CardProps}
           \cup {[component |-> "ResumeAnalysis", stage |-> "props", props |-> p] :
                  p \in AnalysisProps}
           \cup {[component |-> "MatchHistogram", stage |-> "props", scores |-> l] :
                  l \in ScoreLists(MaxScored)}

NextView ==
  \/ RenderJobMatchCard
  \/ RenderResumeAnalysis
  \/ RenderHistogram

\* The presentational components rendered once from their props.
SpecView == InitView /\ [][NextView]_vars

\* --------------------------------------- ResumeAnalysis loading its data
\* The resumes the backend holds for resume `id`.
ProcessedResumes(id) ==
  {[resume_id |-> id, ai_analysis_scores |-> ai, ats_compatibility_score |-> 60] :
     ai \in {None, Some(AiScores(80, 60, 60))}}

\* The resume_id and resumeData props: each may be left out, and a resume_id
\* may be the empty string.
ResumeIdProps == {None, Some("")} \cup {Some(r) : r \in Resumes}
ResumeDataProps == {None} \cup {Some(d) : d \in UNION {ProcessedResumes(r) : r \in Resumes}}
LoadProps == [resume_id : ResumeIdProps, resumeData : ResumeDataProps]

\* What the fetch of getProcessedResume(id) may settle with.
ResumeResponses(id) ==
  {Response(st, b) : st \in Statuses,
                     b \in {JsonBody("resume.json", d) : d \in ProcessedResumes(id)}
                             \cup TextBodies("oops")}
  \cup {FetchRejected}

\* if (resume_id && !resumeData), line 412
\* (faulty variant: the resumeData prop is not looked at)
ShouldLoadMut(props) == props.resume_id # None /\ props.resume_id[1] # ""
ShouldLoad(props) ==
  /\ props.resume_id # None /\ props.resume_id[1] # ""
  /\ props.resumeData = None

LoadFailedMessage == "Failed to load resume analysis"

\* The component after its first render: the useState cells of lines 406-408,
\* the effect of line 411 not yet run.
MountAnalysis(props) ==
  [component |-> "ResumeAnalysis", stage |-> "mounted", props |-> props,
   resumeAnalysis |-> props.resumeData, loading |-> FALSE, error |-> None,
   requests |-> <<>>, promise |-> Pending, response |-> Pending, console |-> {}]

\* What the component shows, lines 464-487.
AnalysisScreen ==
  IF view.loading THEN "skeleton"
  ELSE IF view.error # None THEN "error"
  ELSE "analysis"

\* The effect of lines 411-422 runs after the first render.
RunAnalysisEffect ==
  /\ view.component = "ResumeAnalysis" /\ view.stage = "mounted"
  /\ view' = IF ShouldLoad(view.props)
             THEN [view EXCEPT !.stage = "loading", !.loading = TRUE,
                     !.requests = <<Request(1, "getProcessedResume",
                                            [resumeId |-> view.props.resume_id[1]])>>]
             ELSE [view EXCEPT !.stage = "idle"]
  /\ UNCHANGED <<dashVars, api>>

\* The fetch of getProcessedResume settles and the call returns or throws.
SettleProcessedResume ==
  /\ view.component = "ResumeAnalysis" /\ view.stage = "loading"
  /\ \E response \in ResumeResponses(view.props.resume_id[1]) :
       view' = [view EXCEPT !.stage = "settled", !.response = response,
                  !.promise = ToPromise(ApiResult("getProcessedResume", response))]
  /\ UNCHANGED <<dashVars, api>>

\* .then(setResumeAnalysis) on fulfilment, the .catch callback on rejection.
HandleProcessedResume ==
  /\ view.component = "ResumeAnalysis" /\ view.stage = "settled"
  /\ view' = IF view.promise.settled = "fulfilled"
             THEN [view EXCEPT !.stage = "handled",
                     !.resumeAnalysis = Some(view.promise.value)]
             ELSE [view EXCEPT !.stage = "handled",
                     !.error = Some(LoadFailedMessage),
                     !.console = @ \cup {[line |-> "Failed to load resume:",
                                          err |-> view.promise.reason]}]
  /\ UNCHANGED <<dashVars, api>>

\* .finally(() => setLoading(false))
FinallyProcessedResume ==
  /\ view.component = "ResumeAnalysis" /\ view.stage = "handled"
  /\ view' = [view EXCEPT !.stage = "done", !.loading = FALSE]
  /\ UNCHANGED <<dashVars, api>>

InitAnalysis ==
  /\ InitDashboard
  /\ view \in {MountAnalysis(props) : props \in LoadProps}

NextAnalysis ==
  \/ RunAnalysisEffect
  \/ SettleProcessedResume
  \/ HandleProcessedResume
  \/ FinallyProcessedResume

\* ResumeAnalysis mounted once with fixed props.
SpecAnalysis == InitAnalysis /\ [][NextAnalysis]_vars

\* ============================================================ claims
\* Steps of a load, recognised from the state before and after.
InitialJoinStep(k) ==
  /\ k \in DOMAIN loads /\ k \in DOMAIN loads'
  /\ loads[k].pc = "awaitInitial" /\ loads'[k].pc # "awaitInitial"

MatchJoinStep(k) ==
  /\ k \in DOMAIN loads /\ k \in DOMAIN loads'
  /\ loads[k].pc = "awaitMatches" /\ loads'[k].pc = "done"

RetryStep == loads # <<>> /\ loads' = <<>>

\* The first n elements of s, in order.
Prefix(s, n) == [i \in 1..Min(Len(s), n) |-> s[i]]

\* The branches of load L whose analyzeResumeJobMatch call succeeded.
Succeeded(L) == {i \in DOMAIN L.matchCalls : L.matchCalls[i].settled = "fulfilled"}
Failed(L) == {i \in DOMAIN L.matchCalls : L.matchCalls[i].settled = "rejected"}

\* The job list of load L is a list, as getResumeJobs declares: the call
\* failed, or it returned an array.
JobsTyped(L) == L.jobs.settled = "rejected" \/ IsArray(L.jobs.value)

\* C1: when the match analyses of a load have settled, whichever of them
\* failed, jobMatches holds exactly one entry per job whose request succeeded,
\* under that job's job_id and holding that request's result, no entry for a
\* job whose request failed, and the page-level error is not set.
C1_FanOutFaultIsolation ==
  [][\A k \in DOMAIN loads : MatchJoinStep(k) =>
       LET L == loads[k] IN
       /\ DOMAIN jobMatches' = {L.fanout[i].job_id : i \in Succeeded(L)}
       /\ \A i \in Succeeded(L) :
            /\ jobMatches'[L.fanout[i].job_id] = L.matchCalls[i].value
            /\ jobMatches'[L.fanout[i].job_id].job_id = L.fanout[i].job_id
       /\ \A i \in Failed(L) : L.fanout[i].job_id \notin DOMAIN jobMatches'
       /\ error' = NoError
       /\ ~loads'[k].threw]_vars

\* C1 witness: a load has finished with some analyses succeeded and some
\* failed, and the page shows the dashboard.
C1_Witness ==
  \E k \in DOMAIN loads :
    /\ loads[k].pc = "done" /\ loads[k].matchWrites = 1
    /\ DOMAIN jobMatches # {}
    /\ Cardinality(DOMAIN jobMatches) < Len(recentJobs)
    /\ Render = "dashboard"

C3_DisplayCap ==
  [][\A k \in DOMAIN loads :
       /\ (InitialJoinStep(k) /\ loads[k].jobs.settled = "fulfilled"
             /\ IsArray(loads[k].jobs.value)) =>
            LET L == loads[k]
                jobs == L.jobs.value.items
                n == Len(jobs)
            IN
            /\ Len(recentJobs') = Min(n, 6)
            /\ \A i \in 1..Min(n, 6) : recentJobs'[i] = jobs[i]
            /\ Len(loads'[k].requests) = Min(n, 6)
            /\ \A i \in 1..Min(n, 6) :
                 /\ loads'[k].requests[i].resume_id = L.resumeId
                 /\ loads'[k].requests[i].job_id = jobs[i].job_id
       /\ (k \in DOMAIN loads' /\ loads[k].pc = "awaitMatches"
             /\ loads'[k].pc = "awaitMatches") =>
            loads'[k].requests = loads[k].requests]_vars

\* C3 witness: the backend returned more than six jobs; six are shown and six
\* requests are in flight or settled.
C3_Witness ==
  \E k \in DOMAIN loads :
    /\ loads[k].pc = "awaitMatches"
    /\ Len(loads[k].jobs.value.items) > 6
    /\ Len(recentJobs) = 6
    /\ Len(loads[k].requests) = 6

\* What the responses of a load determine: the cells after its first
\* continuation, and jobMatches after its second.
ExpectedDashboard(L) ==
  IF L.dashboard.settled = "fulfilled" THEN L.dashboard.value ELSE NULL
ExpectedBulk(L) ==
  IF L.bulk.settled = "fulfilled" THEN L.bulk.value ELSE NULL
ExpectedJobs(L) ==
  IF L.jobs.settled = "fulfilled" THEN Prefix(L.jobs.value.items, 6) ELSE <<>>
ExpectedMatches(L) ==
  [j \in {L.fanout[i].job_id : i \in Succeeded(L)} |->
     LET i == CHOOSE i \in Succeeded(L) : L.fanout[i].job_id = j
     IN L.matchCalls[i].value]

\* C4: the final dashboardData, recentJobs, bulkAnalysis and jobMatches of a
\* load are a function of the responses alone: every continuation runs only
\* when all the requests it joins have settled, writes the values those
\* responses determine, and no other step of the load writes the four cells;
\* so every completion order ends in the same values.
C4_CompletionOrderIndependence ==
  [][/\ \A k \in DOMAIN loads :
          /\ InitialJoinStep(k) =>
               LET L == loads[k] IN
               /\ IsSettled(L.dashboard) /\ IsSettled(L.jobs) /\ IsSettled(L.bulk)
               /\ dashboardData' = ExpectedDashboard(L)
               /\ IF JobsTyped(L)
                  THEN recentJobs' = ExpectedJobs(L) /\ bulkAnalysis' = ExpectedBulk(L)
                  ELSE recentJobs' = recentJobs /\ bulkAnalysis' = bulkAnalysis
               /\ jobMatches' = jobMatches
          /\ MatchJoinStep(k) =>
               LET L == loads[k] IN
               /\ Succeeded(L) \cup Failed(L) = DOMAIN L.fanout
               /\ jobMatches' = ExpectedMatches(L)
               /\ UNCHANGED <<dashboardData, recentJobs, bulkAnalysis>>
     /\ (~RetryStep /\ \A k \in DOMAIN loads : ~InitialJoinStep(k) /\ ~MatchJoinStep(k))
          => UNCHANGED <<dashboardData, recentJobs, bulkAnalysis, jobMatches>>]_vars

\* C4 witness: the requests of a load complete out of issue order: the second
\* analysis has settled, the first has not.
C4_Witness ==
  \E k \in DOMAIN loads :
    /\ loads[k].pc = "awaitMatches"
    /\ Len(loads[k].matchCalls) >= 2
    /\ loads[k].matchCalls[1] = Pending
    /\ IsSettled(loads[k].matchCalls[2])

\* The cells hold nothing fetched for a resume other than r.
OnlyDataOf(r) ==
  /\ dashboardData \in {NULL, DashboardOf(r)}
  /\ bulkAnalysis \in {NULL, BulkOf(r)}
  /\ \A i \in DOMAIN recentJobs : recentJobs[i].job_id[1] = r
  /\ \A j \in DOMAIN jobMatches : jobMatches[j].resume_id = r

\* C5: after resumeId has changed from r1 to r2 and every request of both
\* loads has settled, dashboardData, recentJobs, bulkAnalysis and jobMatches
\* hold only data fetched for r2, in whatever order the responses arrived.
C5_StaleDataDiscarded ==
  (/\ Len(loads) >= 2
   /\ ~effectPending
   /\ \A k \in DOMAIN loads : loads[k].pc = "done" /\ ~loads[k].threw)
  => OnlyDataOf(resumeId)

C7_LoadingFalseAfterInitialBatch ==
  \A k \in DOMAIN loads :
    IF loads[k].pc = "awaitInitial" THEN loading ELSE ~loading

\* C7 (amended): with resumeId unchanged, loading is true from the start of a
\* load until the load finishes, that is until the initial batch and, for a
\* non-empty job list, every match analysis has settled (or the load threw),
\* and false from then on.
C7_LoadingUntilLoadFinishes ==
  /\ loads = <<>> => loading
  /\ \A k \in DOMAIN loads :
       IF loads[k].pc = "done" THEN ~loading ELSE loading

\* C7 witness: the initial batch has settled, match analyses are still in
\* flight, and the page still shows the loading skeleton.
C7_Witness ==
  \E k \in DOMAIN loads :
    /\ loads[k].pc = "awaitMatches"
    /\ \E i \in DOMAIN loads[k].matchCalls : loads[k].matchCalls[i] = Pending
    /\ loading /\ Render = "skeleton"

\* C8: when the load itself fails (its body throws), error is set and the
\* error panel with the Retry button is rendered once loading has ended; the
\* error state starts no load: only the manual Retry leaves it.
C8_PageLevelFailure ==
  /\ [](\A k \in DOMAIN loads : loads[k].threw =>
          /\ error = "Failed to load dashboard data"
          /\ ~loading
          /\ Render = "errorPanel"
          /\ ~effectPending)
  /\ [][error # NoError => (RetryStep /\ error' = NoError /\ resumeId' = resumeId)]_vars

\* C8 witness: a load has thrown and the error panel is rendered.
C8_Witness ==
  \E k \in DOMAIN loads : loads[k].threw /\ error # NoError /\ Render = "errorPanel"

\* The one fetch of a single-fetch call, once it has settled.
SingleFetch == api.fetched[1]
ApiCalled(fns) ==
  /\ api.stage = "called" /\ api.fn \in fns
  /\ api.fetched # <<>> /\ api.fetched[1] # Pending
NotOk(f) == f.type = "response" /\ ~Ok(f)
OkJson(f) == f.type = "response" /\ Ok(f) /\ f.body.parsed # INVALID
OkNotJson(f) == f.type = "response" /\ Ok(f) /\ f.body.parsed = INVALID

OwnReturn == {"uploadJobDescriptions", "getResumeJobs", "deleteJob", "uploadJobs"}

FailureKind(e) ==
  CASE e = NetworkError -> "network"
    [] e.name = "Error" /\ e.message[1] = ErrorPrefix("improveResume") -> "http"
    [] e.name = "SyntaxError" -> "parse"
    [] OTHER -> "other"

\* C10 (as claimed): improveResume (a) passes a rejection of fetch on
\* unchanged, (b) turns a non-2xx response into an error holding the status
\* and the body text, (c) turns a body that is not JSON into a parse error of
\* its own that holds the raw response text.
C10_WrappedParseError ==
  ApiCalled({"improveResume"}) =>
    LET f == SingleFetch IN
    /\ f.type = "networkError" => api.result = Rejected(f.error)
    /\ NotOk(f) =>
         /\ api.result.settled = "rejected"
         /\ Contains(api.result.reason, StatusText(f.status))
         /\ Contains(api.result.reason, f.body.raw)
    /\ OkNotJson(f) =>
         /\ api.result.settled = "rejected"
         /\ api.result.reason # f.body.parseError
         /\ Contains(api.result.reason, f.body.raw)

\* C10 (amended): improveResume (a) passes a rejection of fetch on unchanged,
\* (b) turns a non-2xx response into an Error holding the status and the body
\* text, (c) on a body that is not JSON rethrows the error of JSON.parse
\* unchanged, the raw text going to the console only.  The three are told
\* apart by the error, and a call fails in exactly one of these ways or
\* returns the parsed body.
C10_ImproveResumeTaxonomy ==
  ApiCalled({"improveResume"}) =>
    LET f == SingleFetch IN
    /\ f.type = "networkError" =>
         api.result = Rejected(f.error) /\ FailureKind(api.result.reason) = "network"
    /\ NotOk(f) =>
         /\ api.result.settled = "rejected"
         /\ FailureKind(api.result.reason) = "http"
         /\ Contains(api.result.reason, StatusText(f.status))
         /\ Contains(api.result.reason, f.body.raw)
    /\ OkNotJson(f) =>
         api.result = Rejected(f.body.parseError) /\ FailureKind(api.result.reason) = "parse"
    /\ OkJson(f) => api.result = Fulfilled(f.body.parsed)

\* C10 witness: improveResume got a success response whose body is not JSON
\* and threw the SyntaxError of JSON.parse, which does not hold the raw text.
C10_Witness ==
  /\ ApiCalled({"improveResume"})
  /\ OkNotJson(SingleFetch)
  /\ api.result = Rejected(SingleFetch.body.parseError)
  /\ ~Contains(api.result.reason, SingleFetch.body.raw)

\* Two entries of the request log that ask one load for the same thing: the
\* same endpoint and, for a match analysis, the same job.
SameRequest(a, b) ==
  /\ a.load = b.load
  /\ a.fn = b.fn
  /\ a.fn = "analyzeResumeJobMatch" => a.request.job_id = b.request.job_id

\* C11: within one load the dashboard, job-list and bulk-analysis endpoints
\* are each requested at most once and the match analysis of each displayed
\* job is requested at most once, whether the requests succeed or fail: no
\* two entries of the request log ask one load for the same thing.
C11_NoAutomaticRetry ==
  \A i, j \in DOMAIN sent : SameRequest(sent[i], sent[j]) => i = j

\* C11 witness: the dashboard call of a load failed, one of its match
\* analyses failed too, and the log holds the three initial requests and one
\* request per displayed job.
C11_Witness ==
  \E k \in DOMAIN loads :
    /\ loads[k].pc = "awaitMatches"
    /\ dashboardData = NULL
    /\ Failed(loads[k]) # {}
    /\ Len(sent) = 3 + Len(loads[k].fanout)

\* A component of the given kind has rendered.
Rendered(component) == view.component = component /\ view.stage = "rendered"

\* The bucket the documented thresholds give a whole-number score.
DocumentedBucket(score) ==
  CASE score \in 90..100 -> "excellent"
    [] score \in 75..89 -> "good"
    [] score \in 60..74 -> "fair"
    [] score < 60 -> "poor"
    [] OTHER -> "none"

\* The number of scores of a list whose documented bucket is b.
InBucket(scores, b) == Cardinality({i \in DOMAIN scores : DocumentedBucket(scores[i]) = b})

\* C12: the histogram of a list of match scores counts a score as excellent
\* in [90,100], good in [75,90), fair in [60,75) and poor below 60 (so 59 is
\* poor, 60 and 74 fair, 75 and 89 good, 90 and 100 excellent), and the
\* histogram of 95, 72, 40 is {excellent: 1, good: 0, fair: 1, poor: 1}.
C12_BucketThresholds ==
  Rendered("MatchHistogram") =>
    /\ \A b \in {"excellent", "good", "fair", "poor"} :
         view.histogram[b] = InBucket(view.scores, b)
    /\ view.scores = <<95, 72, 40>> =>
         view.histogram = [excellent |-> 1, good |-> 0, fair |-> 1, poor |-> 1]

\* C12 witness: the histogram of the scenario's scores 95, 72, 40 has been
\* computed.
C12_Witness == Rendered("MatchHistogram") /\ view.scores = <<95, 72, 40>>

\* C13: when every score of the list lies in [0,100], each is counted in
\* exactly one bucket: the four counts sum to the number of scores (for a
\* list of one score, exactly one count is 1).
C13_BucketsPartition ==
  (Rendered("MatchHistogram") /\ \A i \in DOMAIN view.scores : view.scores[i] \in 0..100) =>
    view.histogram.excellent + view.histogram.good + view.histogram.fair
      + view.histogram.poor = Len(view.scores)

\* C13 witness: a histogram of three scores in range, each on a bucket
\* boundary.
C13_Witness == Rendered("MatchHistogram") /\ view.scores = <<90, 75, 60>>

\* The recommendations of the rendered card, none when the list is missing.
CardRecs ==
  IF view.matchResult.recommendations = UNDEFINED THEN <<>>
  ELSE view.matchResult.recommendations.items

\* The positions of the recommendations whose priority is critical or high.
CriticalOrHigh(recs) == {i \in DOMAIN recs : recs[i].priority \in {"critical", "high"}}

\* C14: prioritySuggestions holds a recommendation of the match result iff
\* its priority is critical or high (medium and low never), the badge count
\* is the number of those, and a missing recommendations list gives count 0.
C14_PriorityFilter ==
  Rendered("JobMatchCard") =>
    /\ \A i \in DOMAIN CardRecs :
         (\E j \in DOMAIN view.prioritySuggestions :
            view.prioritySuggestions[j] = CardRecs[i]) <=> i \in CriticalOrHigh(CardRecs)
    /\ \A j \in DOMAIN view.prioritySuggestions :
         \E i \in DOMAIN CardRecs : view.prioritySuggestions[j] = CardRecs[i]
    /\ view.priorityBadge.count = Cardinality(CriticalOrHigh(CardRecs))
    /\ view.priorityBadge.count = Len(view.prioritySuggestions)
    /\ view.matchResult.recommendations = UNDEFINED => view.priorityBadge.count = 0

\* C14 witness: a card rendered from a high, a medium and a critical
\* recommendation shows the count 2.
C14_Witness ==
  /\ Rendered("JobMatchCard")
  /\ CardRecs = <<Suggestion("high", 1), Suggestion("medium", 2), Suggestion("critical", 3)>>
  /\ view.priorityBadge = [shown |-> TRUE, count |-> 2]

\* C15: filtering the filter's output again returns the same sequence, and
\* the retained recommendations are in the order they have in the input
\* (each recommendation's text is its position in the input list).
C15_FilterIdempotentOrdered ==
  Rendered("JobMatchCard") =>
    /\ PrioritySuggestions([view.matchResult EXCEPT
                              !.recommendations = ArrayOf(view.prioritySuggestions)])
         = view.prioritySuggestions
    /\ \A a, b \in DOMAIN view.prioritySuggestions :
         a < b => view.prioritySuggestions[a].suggestion < view.prioritySuggestions[b].suggestion

\* C15 witness: two recommendations are retained and one between them is
\* dropped.
C15_Witness ==
  /\ Rendered("JobMatchCard")
  /\ CardRecs = <<Suggestion("critical", 1), Suggestion("low", 2), Suggestion("high", 3)>>
  /\ Len(view.prioritySuggestions) = 2

\* The color a class paints with.
ColorOf(class) ==
  CASE class \in {"text-green-500", "bg-green-500"} -> "green"
    [] class \in {"text-yellow-500", "bg-yellow-500"} -> "yellow"
    [] class \in {"text-red-500", "bg-red-500"} -> "red"
    [] OTHER -> "none"

\* The documented color band of a score.
DocumentedColor(score) ==
  CASE score >= 80 -> "green"
    [] score >= 60 /\ score < 80 -> "yellow"
    [] score < 60 -> "red"

\* The ATS score ResumeAnalysis displays.
AtsScore == FieldOr0(view.props.resumeAnalysis, "ats_compatibility_score")

\* C16: getMatchColor, getMatchBadgeColor and getScoreColor return, for every
\* score they are applied to, green iff score >= 80, yellow iff
\* 60 <= score < 80 and red iff score < 60 (59 red, 60 and 79 yellow, 80
\* green), scores outside [0,100] included.
C16_ColorBanding ==
  /\ Rendered("JobMatchCard") =>
       LET m == view.matchResult IN
       /\ ColorOf(view.badge) = DocumentedColor(m.match_score)
       /\ ColorOf(view.overall) = DocumentedColor(m.match_score)
       /\ ColorOf(view.skills) = DocumentedColor(m.detailed_analysis.skills_match)
       /\ ColorOf(view.experience) = DocumentedColor(m.detailed_analysis.experience_match)
       /\ ColorOf(view.keywords) = DocumentedColor(m.detailed_analysis.keyword_coverage)
  /\ Rendered("ResumeAnalysis") =>
       /\ ColorOf(view.overall) = DocumentedColor(view.overallScore)
       /\ ColorOf(view.ats) = DocumentedColor(AtsScore)

\* C16 witness: a card whose scores sit on the boundaries: match score 80
\* (green badge), skills 59 (red), experience 60 and keywords 79 (yellow).
C16_Witness ==
  /\ Rendered("JobMatchCard")
  /\ view.matchResult = MatchResult(80, 59, 60, 79, UNDEFINED)
  /\ view.badge = "bg-green-500" /\ view.skills = "text-red-500"
  /\ view.experience = "text-yellow-500" /\ view.keywords = "text-yellow-500"

\* The documented label of a score.
DocumentedLabel(score) ==
  CASE score >= 90 -> "Excellent"
    [] score >= 80 /\ score < 90 -> "Very Good"
    [] score >= 70 /\ score < 80 -> "Good"
    [] score >= 60 /\ score < 70 -> "Fair"
    [] score < 60 -> "Needs Improvement"

\* C17 (as claimed): every label function returns, for every score, the
\* documented label: "Excellent" from 90, "Very Good" in [80,90), "Good" in
\* [70,80), "Fair" in [60,70), "Needs Improvement" below 60; so 80 is
\* labelled "Very Good" by getScoreText and by getMatchText.
C17_SameLabelEverywhere ==
  /\ Rendered("ResumeAnalysis") => view.text = DocumentedLabel(view.overallScore)
  /\ Rendered("JobMatchCard") => view.text = DocumentedLabel(view.matchResult.match_score)

\* The documented label as JobMatchCard words it.
MatchLabel(label) ==
  CASE label = "Excellent" -> "Excellent Match"
    [] label = "Very Good" -> "Very Good Match"
    [] label = "Good" -> "Good Match"
    [] label = "Fair" -> "Fair Match"
    [] label = "Needs Improvement" -> "Needs Improvement"

\* C17 (amended): getScoreText returns the documented label of every score;
\* getMatchText uses the same thresholds and returns the documented label
\* followed by " Match", except "Needs Improvement", which it returns as is;
\* so 80 is labelled "Very Good" by getScoreText and "Very Good Match" by
\* getMatchText.
C17_ScoreLabels ==
  /\ Rendered("ResumeAnalysis") => view.text = DocumentedLabel(view.overallScore)
  /\ Rendered("JobMatchCard") =>
       view.text = MatchLabel(DocumentedLabel(view.matchResult.match_score))

\* C17 witness: a card with match score 80 is labelled "Very Good Match".
C17_Witness ==
  /\ Rendered("JobMatchCard")
  /\ view.matchResult.match_score = 80
  /\ view.text = "Very Good Match"

\* The band a label text stands for.
LabelBand(text) ==
  CASE text \in {"Excellent", "Excellent Match"} -> "excellent"
    [] text \in {"Very Good", "Very Good Match"} -> "very good"
    [] text \in {"Good", "Good Match"} -> "good"
    [] text \in {"Fair", "Fair Match"} -> "fair"
    [] text = "Needs Improvement" -> "needs improvement"
    [] OTHER -> "none"

\* C18: JobMatchCard and ResumeAnalysis band every score alike: whatever one
\* component renders for a score, the color functions of the other and the
\* inline class of the score bar give the same color band, and the label
\* function of the other gives the same label band.
C18_SameBandingEverywhere ==
  /\ Rendered("JobMatchCard") =>
       LET s == view.matchResult.match_score IN
       /\ ColorOf(view.badge) = ColorOf(getScoreColor(s))
       /\ ColorOf(view.overall) = ColorOf(getScoreColor(s))
       /\ ColorOf(view.overall) = ColorOf(BarColor(s))
       /\ LabelBand(view.text) = LabelBand(getScoreText(s))
       /\ \A sub \in {"skills_match", "experience_match", "keyword_coverage"} :
            ColorOf(getMatchColor(view.matchResult.detailed_analysis[sub]))
              = ColorOf(getScoreColor(view.matchResult.detailed_analysis[sub]))
  /\ Rendered("ResumeAnalysis") =>
       LET s == view.overallScore IN
       /\ ColorOf(view.overall) = ColorOf(view.bar)
       /\ ColorOf(view.overall) = ColorOf(getMatchColor(s))
       /\ ColorOf(view.bar) = ColorOf(getMatchBadgeColor(s))
       /\ LabelBand(view.text) = LabelBand(getMatchText(s))
       /\ ColorOf(view.ats) = ColorOf(getMatchColor(AtsScore))

\* C18 witness: ResumeAnalysis has rendered an overall score of 80: green
\* text, green bar, "Very Good".
C18_Witness ==
  /\ Rendered("ResumeAnalysis")
  /\ view.overallScore = 80
  /\ view.overall = "text-green-500" /\ view.bar = "bg-green-500"
  /\ view.text = "Very Good"

\* C19: the score bar's width is max(0, min(100, score)) percent, within
\* [0,100] also for a score below 0 or above 100.
C19_BarWidthClamped ==
  Rendered("ResumeAnalysis") =>
    /\ view.width = Max(0, Min(100, view.overallScore))
    /\ view.width \in 0..100

\* C19 witness: an overall score above 100 is drawn as a full bar.
C19_Witness ==
  /\ Rendered("ResumeAnalysis")
  /\ view.overallScore > 100
  /\ view.width = 100

\* A step in which handleApplyToJob or handleSaveJob ran: its line is new on
\* the console.
HandlerStep == Clicks' \ Clicks # {}

\* C20: a run of handleApplyToJob or handleSaveJob, for any job, leaves
\* dashboardData, bulkAnalysis, recentJobs, jobMatches, loading, error and
\* activeTab as they were and issues no request.
C20_HandlersChangeNothing ==
  [][HandlerStep => UNCHANGED <<cells, activeTab, sent, loads, resumeId, effectPending>>]_vars

\* C20 witness: Apply or Save has been clicked on a card of a page that shows
\* several jobs, some with a match and some without.
C20_Witness ==
  /\ Clicks # {}
  /\ Len(Cards) > 1
  /\ Len(Cards) < Len(recentJobs)

\* The requests load L is waiting for have all settled.
AwaitedSettled(L) ==
  CASE L.pc = "awaitInitial" -> AllSettled(<<L.dashboard, L.jobs, L.bulk>>)
    [] L.pc = "awaitMatches" -> AllSettled(L.matchCalls)
    [] OTHER -> TRUE

\* C21: when every issued request settles in the end, a started load ends
\* with loading false, whether it completed or threw; and a load leaves an
\* await only in a step that finds every awaited request settled: until then
\* it stays where it is and loading stays true, no timeout ends the wait.
C21_LoadTermination ==
  /\ (loads # <<>>) ~> (loads # <<>> /\ loads[1].pc = "done" /\ loading = FALSE)
  /\ [][\A k \in DOMAIN loads :
          ~AwaitedSettled(loads[k]) =>
             /\ k \in DOMAIN loads'
             /\ loads'[k].pc = loads[k].pc
             /\ loading' = TRUE]_vars

\* C21 witness: a load that threw has ended and loading is false.
C21_Witness ==
  /\ loads # <<>>
  /\ loads[1].pc = "done" /\ loads[1].threw
  /\ loading = FALSE

\* The match-analysis requests in the request log.
MatchEntries == {n \in DOMAIN sent : sent[n].fn = "analyzeResumeJobMatch"}

\* C22: every match-analysis request of a load carries the resumeId of that
\* load and the job_id of one displayed job, and every entry of jobMatches is
\* stored under the job_id it was requested and obtained for, for the
\* resume of its load.  (A map holds one value per key.)
C22_MatchIdentity ==
  /\ \A n \in MatchEntries :
       /\ sent[n].load \in DOMAIN loads
       /\ sent[n].request.resume_id = loads[sent[n].load].resumeId
       /\ \E i \in DOMAIN recentJobs : recentJobs[i].job_id = sent[n].request.job_id
  /\ \A j \in DOMAIN jobMatches :
       /\ jobMatches[j].job_id = j
       /\ jobMatches[j].resume_id = resumeId
       /\ \E n \in MatchEntries : sent[n].request.job_id = j

\* C22 witness: several results are stored and the analysis of one displayed
\* job failed.
C22_Witness ==
  /\ Cardinality(DOMAIN jobMatches) > 1
  /\ Cardinality(DOMAIN jobMatches) < Len(recentJobs)

\* The match-analysis requests load k has issued, in a request log.
MatchEntriesOf(log, k) ==
  {n \in DOMAIN log : log[n].fn = "analyzeResumeJobMatch" /\ log[n].load = k}

\* The job list load L goes on with: [] when getResumeJobs failed.
JobsOf(L) == IF L.jobs.settled = "rejected" THEN ArrayOf(<<>>) ELSE L.jobs.value

\* C23: a load issues match-analysis requests only in a step that finds its
\* three initial calls settled; and when its job list is empty or failed to
\* load, the load ends in that step, having issued no match-analysis request
\* and written no jobMatches.
C23_FanOutAfterInitialBatch ==
  [][\A k \in DOMAIN loads :
       /\ (k \in DOMAIN loads' /\ MatchEntriesOf(sent', k) # MatchEntriesOf(sent, k)) =>
            /\ loads[k].pc = "awaitInitial"
            /\ AllSettled(<<loads[k].dashboard, loads[k].jobs, loads[k].bulk>>)
       /\ (InitialJoinStep(k) /\ JobsOf(loads[k]) = ArrayOf(<<>>)) =>
            /\ loads'[k].pc = "done"
            /\ loads'[k].matchWrites = 0
            /\ MatchEntriesOf(sent', k) = {}
            /\ jobMatches' = jobMatches]_vars

\* C23 witness: a load whose job list was empty or failed has ended: three
\* requests in the log, none of them a match analysis.
C23_Witness ==
  /\ loads # <<>>
  /\ loads[1].pc = "done" /\ ~loads[1].threw
  /\ recentJobs = <<>>
  /\ Len(sent) = 3 /\ MatchEntries = {}

\* C24: whenever loading is false, every key of jobMatches is the job_id of
\* a job of recentJobs and recentJobs has at most 6 jobs, also after
\* resumeId has changed to a resume whose job list is empty or fails to
\* load.
C24_MatchesWithinRecentJobs ==
  ~loading =>
    /\ \A j \in DOMAIN jobMatches : \E i \in DOMAIN recentJobs : recentJobs[i].job_id = j
    /\ Len(recentJobs) <= DisplayCap

\* The Job Matches tab is on screen.
MatchesTabShown == Render = "dashboard" /\ activeTab = "matches"

\* C25: on the Job Matches tab a card is rendered for a job iff the job is in
\* recentJobs and jobMatches has an entry for its job_id; the cards are in
\* recentJobs order; a job without a match renders nothing; so there are as
\* many cards as stored matches, while the header counts recentJobs.
C25_CardsOfMatchedJobs ==
  MatchesTabShown =>
    /\ \A i \in DOMAIN recentJobs :
         (\E c \in DOMAIN Cards : Cards[c] = recentJobs[i])
           <=> recentJobs[i].job_id \in DOMAIN jobMatches
    /\ \A c \in DOMAIN Cards : \E i \in DOMAIN recentJobs : Cards[c] = recentJobs[i]
    /\ \A c, d \in DOMAIN Cards :
         c < d => \E i, j \in DOMAIN recentJobs :
                    i < j /\ Cards[c] = recentJobs[i] /\ Cards[d] = recentJobs[j]
    /\ Len(Cards) = Cardinality(DOMAIN jobMatches)
    /\ MatchesHeader = Len(recentJobs)

\* C25 witness: the tab shows several cards, fewer than the header counts,
\* and the first job of recentJobs has no card.
C25_Witness ==
  /\ MatchesTabShown
  /\ Len(Cards) > 1
  /\ Len(Cards) < MatchesHeader
  /\ Cards[1] # recentJobs[1]

\* An uploadJobs call is in progress.
Uploading == api.stage = "called" /\ api.fn = "uploadJobs"

\* Request i of the call got a success response whose body is JSON.
Uploaded(i) ==
  /\ api.fetched[i] # Pending
  /\ api.fetched[i].type = "response"
  /\ Ok(api.fetched[i])
  /\ api.fetched[i].body.parsed # INVALID

\* Request i of the call failed: a rejected fetch, a non-success status, or a
\* success body that is not JSON.
UploadFailed(i) == api.fetched[i] # Pending /\ ~Uploaded(i)

\* C26: uploadJobs issues one request per description; when all succeed it
\* resolves to the responses in the order of the descriptions, whatever the
\* order of completion; when a request fails the call rejects and returns no
\* partial result; the requests still outstanding are not cancelled.
C26_UploadAllOrNothing ==
  /\ [](Uploading =>
          /\ Len(api.fetched) = api.n
          /\ (\A i \in DOMAIN api.fetched : Uploaded(i))
               => api.result = Fulfilled(ArrayOf([i \in 1..api.n |->
                                                    api.fetched[i].body.parsed]))
          /\ (\E i \in DOMAIN api.fetched : UploadFailed(i))
               => api.result.settled = "rejected"
          /\ api.result.settled = "fulfilled"
               => \A i \in DOMAIN api.fetched : Uploaded(i)
          /\ (/\ \A i \in DOMAIN api.fetched : ~UploadFailed(i)
              /\ \E i \in DOMAIN api.fetched : api.fetched[i] = Pending)
               => api.result = Pending)
  /\ [][(Uploading /\ \E i \in DOMAIN api.fetched : api.fetched[i] = Pending)
          => /\ api'.stage = "called"
             /\ api'.result.settled = api.result.settled
                  \/ api.result = Pending
             /\ \A i \in DOMAIN api.fetched :
                  \/ api'.fetched[i] = api.fetched[i]
                  \/ /\ api.fetched[i] = Pending
                     /\ api'.fetched[i] \in FetchOutcomes("uploadJobs")]_vars

\* C26 witness: the second of two uploads has failed and rejected the call
\* while the first request is still outstanding.
C26_Witness ==
  /\ Uploading
  /\ api.n = 2
  /\ api.fetched[1] = Pending
  /\ UploadFailed(2)
  /\ api.result.settled = "rejected"

\* Two uploads completed with different responses.
C26_OrderWitness ==
  /\ Uploading
  /\ api.n = 2
  /\ api.result.settled = "fulfilled"
  /\ api.result.value.items[1] # api.result.value.items[2]

\* C27: getResumeJobs returns the jobs array of a success response, the empty
\* list when the success body has no jobs field or a falsy one, and throws on
\* a non-success status; in the dashboard a body without jobs field and a
\* failed job-list fetch both give recentJobs = [] and no match request.
C27_JobListFallback ==
  [][\A k \in DOMAIN loads : InitialJoinStep(k) =>
       LET f == loads[k].jobsResponse
           p == loads[k].jobs
           NoJobs == recentJobs' = <<>> /\ sent' = sent /\ ~loads'[k].threw
       IN
       /\ NotOk(f) =>
            /\ p.settled = "rejected"
            /\ p.reason.message[1] = ErrorPrefix("getResumeJobs")
            /\ NoJobs
       /\ (OkJson(f) /\ "jobs" \notin DOMAIN f.body.parsed) =>
            p = Fulfilled(ArrayOf(<<>>)) /\ NoJobs
       /\ (OkJson(f) /\ "jobs" \in DOMAIN f.body.parsed) =>
            IF Truthy(f.body.parsed.jobs)
            THEN p = Fulfilled(f.body.parsed.jobs)
            ELSE p = Fulfilled(ArrayOf(<<>>)) /\ NoJobs]_vars

\* C27 witness: the job-list response had no jobs field; the load is over with
\* the dashboard data shown, no recent job and the initial requests only.
C27_Witness ==
  /\ loads # <<>>
  /\ loads[1].pc = "done"
  /\ OkJson(loads[1].jobsResponse)
  /\ "jobs" \notin DOMAIN loads[1].jobsResponse.body.parsed
  /\ Truthy(dashboardData)
  /\ recentJobs = <<>>
  /\ error = NoError
  /\ MatchEntries = {}

\* The props give a resume_id to load and no resume data.
SelfLoading == view.props.resume_id \in {Some(r) : r \in Resumes} /\ view.props.resumeData = None

\* C28: ResumeAnalysis issues getProcessedResume iff resume_id is provided and
\* resumeData is absent; then loading is true until the request settles, after
\* which loading is false and either resumeAnalysis holds the fetched resume
\* with error null, or error is the failure message with resumeAnalysis
\* unchanged; with resumeData provided no request is issued and loading is
\* never true.
C28_SelfLoading ==
  /\ view.stage # "mounted" =>
       IF SelfLoading
       THEN view.requests = <<Request(1, "getProcessedResume",
                                      [resumeId |-> view.props.resume_id[1]])>>
       ELSE view.requests = <<>>
  /\ view.stage = "loading" =>
       view.loading /\ AnalysisScreen = "skeleton" /\ view.promise = Pending
  /\ view.stage = "done" =>
       /\ ~view.loading
       /\ IF OkJson(view.response)
          THEN /\ view.resumeAnalysis = Some(view.response.body.parsed)
               /\ view.error = None
               /\ AnalysisScreen = "analysis"
          ELSE /\ view.error = Some(LoadFailedMessage)
               /\ view.resumeAnalysis = view.props.resumeData
               /\ AnalysisScreen = "error"
  /\ view.props.resumeData # None =>
       view.requests = <<>> /\ ~view.loading /\ view.resumeAnalysis = view.props.resumeData
  /\ view.requests = <<>> => ~view.loading /\ view.error = None

\* C28 witness: the request of a self-loading component has settled with a
\* resume and the component shows it.
C28_Witness ==
  /\ view.component = "ResumeAnalysis" /\ view.stage = "done"
  /\ SelfLoading
  /\ OkJson(view.response)
  /\ view.resumeAnalysis = Some(view.response.body.parsed)
  /\ ~view.loading

\* The request of a self-loading component has failed.
C28_FailureWitness ==
  /\ view.component = "ResumeAnalysis" /\ view.stage = "done"
  /\ NotOk(view.response)
  /\ view.error = Some(LoadFailedMessage)

\* C29: the overall score ResumeAnalysis displays is the AI overall_score
\* whenever AI analysis scores are present (also when it is 0 and a non-zero
\* legacy score prop is supplied), the legacy score prop only when they are
\* absent, and 0 only when neither is available.
C29_AiScoreTakesPrecedence ==
  Rendered("ResumeAnalysis") =>
    LET analysisData == view.props.resumeAnalysis
        aiScores == IF analysisData = None THEN None
                    ELSE analysisData[1].ai_analysis_scores
    IN view.overallScore =
         IF aiScores # None THEN aiScores[1].overall_score
         ELSE IF view.props.score # None THEN view.props.score[1]
         ELSE 0
====
